---- MODULE Spec2Model ----
(***************************************************************************)
(* Obsidian -> WordPress bilingual publisher (scripts/obsidian_to_wp_v2.py, *)
(* scripts/markdown_processor.py, scripts/wp_polylang_publisher.py).        *)
(*                                                                          *)
(* The model has three layers:                                              *)
(*   - paths and documents: a path is the sequence of its characters, a     *)
(*     document is the front matter the code reads plus what a rewrite      *)
(*     loses;                                                               *)
(*   - collect_language_pairs: the index pass and one step per iteration of *)
(*     the pairing loop;                                                    *)
(*   - process_pairs with publish_post, save_metadata_to_file,              *)
(*     set_featured_image and link_translations, one action per I/O step.   *)
(***************************************************************************)
EXTENDS Integers, Sequences, FiniteSets, TLC

(***************************************************************************)
(* Paths as character sequences.                                            *)
(***************************************************************************)

\* Code points of the characters that occur in the modelled paths; Python
\* compares str values by code point (sorted() in get_markdown_files).
CodePoint ==
    "." :> 46 @@ "/" :> 47 @@ "a" :> 97 @@ "b" :> 98 @@ "d" :> 100 @@
    "e" :> 101 @@ "f" :> 102 @@ "g" :> 103 @@ "h" :> 104 @@ "i" :> 105 @@
    "l" :> 108 @@ "m" :> 109 @@ "n" :> 110 @@ "p" :> 112 @@ "r" :> 114 @@
    "s" :> 115 @@ "t" :> 116 @@ "v" :> 118 @@ "x" :> 120 @@ "y" :> 121 @@
    "z" :> 122

\* str.__lt__: the first differing character decides, a proper prefix is smaller.
StrLess(p, q) ==
    \/ /\ Len(p) < Len(q)
       /\ \A i \in 1..Len(p) : p[i] = q[i]
    \/ \E i \in 1..Len(p) :
          /\ i <= Len(q)
          /\ \A j \in 1..(i - 1) : p[j] = q[j]
          /\ CodePoint[p[i]] < CodePoint[q[i]]

\* `sub in s` for str.
Contains(s, sub) ==
    \E i \in 1..(Len(s) - Len(sub) + 1) : SubSeq(s, i, i + Len(sub) - 1) = sub

StartsWith(s, pre) == Len(pre) <= Len(s) /\ SubSeq(s, 1, Len(pre)) = pre

EndsWith(s, suf) ==
    Len(suf) <= Len(s) /\ SubSeq(s, Len(s) - Len(suf) + 1, Len(s)) = suf

\* Index of the last "/" of a path, 0 when there is none.
LastSlash(p) ==
    IF \E i \in 1..Len(p) : p[i] = "/"
    THEN CHOOSE i \in 1..Len(p) : p[i] = "/" /\ \A j \in (i + 1)..Len(p) : p[j] # "/"
    ELSE 0

\* os.path.dirname and os.path.basename (POSIX, no trailing slash in the inputs).
Dirname(p) == IF LastSlash(p) = 0 THEN <<>> ELSE SubSeq(p, 1, LastSlash(p) - 1)

Basename(p) == SubSeq(p, LastSlash(p) + 1, Len(p))

\* os.path.join of a directory and a relative name.
Join(d, name) == IF d = <<>> THEN name ELSE d \o <<"/">> \o name

\* The directories a path lies in, outermost first, as the prefixes ending
\* before each "/".
Ancestors(p) == { SubSeq(p, 1, i - 1) : i \in { k \in 1..Len(p) : p[k] = "/" } }

\* The publish folder given on the command line.
Root == <<"v">>

EnglishName == <<"e", "n", "g", "l", "i", "s", "h">>

\* The substrings the pairing loop tests a path for.
EnglishMark == <<"/">> \o EnglishName \o <<"/">>

EnMark == <<"/", "e", "n", "/">>

MdSuffix == <<".", "m", "d">>

\* The files the model can hold on disk.
FileA == Root \o <<"/", "a", ".", "m", "d">>

FileB == Root \o <<"/", "b", ".", "m", "d">>

FileEnA == Root \o EnMark \o <<"a", ".", "m", "d">>

FileEnglishA == Root \o EnglishMark \o <<"a", ".", "m", "d">>

FileEnglishB == Root \o EnglishMark \o <<"b", ".", "m", "d">>

\* tempfile.NamedTemporaryFile(dir=..., suffix='.md') names its file
\* tmp<random>.md; the random part is one letter here, a different one in
\* every run so that the file a killed run leaves behind is never reused.
TempLetters == << "x", "y", "z", "p" >>

TempName(n) == << "t", "m", "p", TempLetters[n], ".", "m", "d" >>

Documents == { FileA, FileB, FileEnA, FileEnglishA, FileEnglishB }

TempPaths ==
    { Join(Dirname(f), TempName(n)) : f \in Documents, n \in 1..Len(TempLetters) }

\* Files of other kinds a folder can hold: a hidden file, a file that is not
\* markdown, files below a drafts folder, and a file in a hidden folder that
\* is not on the exclusion list.
FileHidden == Root \o <<"/", ".", "h", ".", "m", "d">>

FileText == Root \o <<"/", "a", ".", "t", "x", "t">>

FileDraft == Root \o <<"/", "d", "r", "a", "f", "t", "s", "/", "a", ".", "m", "d">>

FileDraftEn == Root \o <<"/", "d", "r", "a", "f", "t", "s">> \o EnMark \o <<"a", ".", "m", "d">>

FileInHiddenDir == Root \o <<"/", ".", "t", "/", "a", ".", "m", "d">>

OtherFiles == { FileHidden, FileText, FileDraft, FileDraftEn, FileInHiddenDir }

\* Every path a state of the model can hold on disk.
KnownPaths == Documents \cup TempPaths \cup OtherFiles

(***************************************************************************)
(* Documents.                                                               *)
(***************************************************************************)

\* Python's None for a path, a post id and a group id.  The code tests all
\* three by truthiness (`if post_id:`, `if not en_file:`, `if group_id:`), so
\* the falsy value of each type stands for None.
NoFile == <<>>

NoId == 0

NoGroup == ""

\* What a markdown file holds: the front-matter keys the code reads
\* (publish, wp-post-id, mirror_post_id, group-id), the body, and `lost`, the
\* number of characters of the text that do not survive frontmatter.loads
\* followed by frontmatter.dumps (comments, quoting, blank lines).  `wellformed`
\* is false for a file whose front matter does not parse.
Doc(publish, id, mirror, group, lost) ==
    [ wellformed |-> TRUE, publish |-> publish, wp_post_id |-> id,
      mirror_post_id |-> mirror, group_id |-> group, body |-> "text", lost |-> lost ]

\* A file whose front matter does not parse (also a temporary file that was
\* created and not yet written).
Unparsable ==
    [ wellformed |-> FALSE, publish |-> "absent", wp_post_id |-> NoId,
      mirror_post_id |-> NoId, group_id |-> NoGroup, body |-> "", lost |-> 0 ]

VARIABLES
    disk,               \* the files below Root: path -> document
    covers,             \* the directories that hold a cover image
    posts,              \* gateway: the ids of the posts that exist
    next_id,            \* gateway: the id the next created post gets
    translations,       \* gateway: the linked <<ko id, en id>> pairs
    response,           \* gateway: the response a request on its own received
    run,                \* number of the run of main in progress
    pc,                 \* where main / collect_language_pairs / process_pairs stands
    side,               \* process_pairs: the side of the pair in work, "ko" or "en"
    all_files,          \* collect_language_pairs: path -> parsed metadata
    file_order,         \* insertion order of all_files (dict order); the list
                        \* get_markdown_files returned, when that is called alone
    post_id_to_file,    \* collect_language_pairs: post id -> path
    group_id_to_files,  \* collect_language_pairs: group id -> list of paths
    processed_files,    \* collect_language_pairs: the processed-set
    pairs,              \* the pair list built by collect_language_pairs
    cursor,             \* index of the loop iteration in progress
    stats,              \* process_pairs: the summary counters
    post_ids,           \* process_pairs: ko_post_id and en_post_id of the pair
    save,               \* the save_metadata_to_file call in progress
    trace,              \* history: the requests and writes of the pair in work
    history             \* history kept across runs

vars == << disk, covers, posts, next_id, translations, response, run, pc, side, all_files,
           file_order, post_id_to_file, group_id_to_files, processed_files,
           pairs, cursor, stats, post_ids, save, trace, history >>

\* Groups of variables an action leaves alone.
gatewayVars == << posts, next_id, translations, response >>

collectVars == << all_files, file_order, post_id_to_file, group_id_to_files,
                  processed_files >>

(***************************************************************************)
(* markdown_processor.get_markdown_files and parse_markdown_file.           *)
(***************************************************************************)

\* exclude_folders default of get_markdown_files.
ExcludeFolders ==
    { <<"t", "e", "m", "p", "l", "a", "t", "e", "s">>,
      <<"d", "r", "a", "f", "t", "s">>,
      <<".", "o", "b", "s", "i", "d", "i", "a", "n">> }

\* The sequence of the elements of a set of paths in sorted() order.
SortedPaths(S) ==
    [ i \in 1..Cardinality(S) |->
        CHOOSE p \in S : Cardinality({ q \in S : StrLess(q, p) }) = i - 1 ]

\* The elements of a sequence that lie in a set, in order.
RECURSIVE SelectPaths(_, _)
SelectPaths(s, keep) ==
    IF s = <<>> THEN <<>>
    ELSE IF Head(s) \in keep THEN <<Head(s)>> \o SelectPaths(Tail(s), keep)
    ELSE SelectPaths(Tail(s), keep)

\* A walk that collects hidden markdown files as well.
WalkedWithHidden(folder_path, p) ==
    /\ StartsWith(p, folder_path \o <<"/">>)
    /\ \A d \in Ancestors(p) :
          Len(d) > Len(folder_path) => Basename(d) \notin ExcludeFolders
    /\ EndsWith(Basename(p), MdSuffix)

\* What os.walk below folder_path yields of a path: the path lies below the
\* folder, in no pruned directory, ends in .md and does not start with a dot.
Walked(folder_path, p) ==
    /\ StartsWith(p, folder_path \o <<"/">>)
    /\ \A d \in Ancestors(p) :
          Len(d) > Len(folder_path) => Basename(d) \notin ExcludeFolders
    /\ EndsWith(Basename(p), MdSuffix)
    /\ ~StartsWith(Basename(p), <<".">>)

\* The known paths the walk below Root yields, in sorted() order (evaluated
\* once: sorting the files present is selecting them from this sequence).
WalkOrder == SortedPaths({ p \in KnownPaths : Walked(Root, p) })

\* What the loop over os.walk can collect: the walked files present, in
\* whatever order the file system lists them.
Listings ==
    LET present == SelectPaths(WalkOrder, DOMAIN disk)
    IN { [ i \in 1..Len(present) |-> present[f[i]] ] :
            f \in Permutations(1..Len(present)) }

\* A get_markdown_files that returns the list as it was collected.
get_markdown_files_unsorted(markdown_files) == markdown_files

\* get_markdown_files(publish_folder): sorted(markdown_files).
get_markdown_files(markdown_files) ==
    SelectPaths(WalkOrder, { markdown_files[i] : i \in DOMAIN markdown_files })

\* A parse_markdown_file that does not look at the publish key.
ParsesAnyFlag(p) == p \in DOMAIN disk /\ disk[p].wellformed

\* parse_markdown_file returns None (here FALSE) for a file that does not
\* parse, has no publish key or has a falsy one.
Parses(p) ==
    /\ p \in DOMAIN disk
    /\ disk[p].wellformed
    /\ disk[p].publish = "true"

(***************************************************************************)
(* collect_language_pairs.                                                  *)
(***************************************************************************)

\* '/english/' in path or '/en/' in path, evaluated once per known path.
EnglishFolderPaths ==
    { p \in KnownPaths : Contains(p, EnglishMark) \/ Contains(p, EnMark) }

\* A test that knows the english folder only by its long name.
InEnglishLongName(path) == Contains(path, EnglishMark)

InEnglishFolder(path) == path \in EnglishFolderPaths

\* os.path.join(os.path.join(os.path.dirname(ko_file), 'english'),
\* os.path.basename(ko_file)) and the english directory itself, per known path.
EnglishDirOf == [ p \in KnownPaths |-> Join(Dirname(p), EnglishName) ]

EnglishTwinOf == [ p \in KnownPaths |-> Join(EnglishDirOf[p], Basename(p)) ]

DirsOf == [ p \in KnownPaths |-> Ancestors(p) ]

\* First loop: index every publishable file by path, post id and group id.
\* A later file with the same post id overwrites the earlier one.
BuildIndex ==
    /\ pc = "collect"
    /\ \E found \in { get_markdown_files(listing) : listing \in Listings } :
       LET kept  == SelectPaths(found, { p \in DOMAIN disk : Parses(p) })
           ids   == { disk[kept[i]].wp_post_id : i \in 1..Len(kept) } \ {NoId}
           grps  == { disk[kept[i]].group_id : i \in 1..Len(kept) } \ {NoGroup}
       IN /\ file_order' = kept
          /\ all_files' = [ p \in { kept[i] : i \in 1..Len(kept) } |-> disk[p] ]
          /\ post_id_to_file' =
                [ n \in ids |->
                    kept[CHOOSE i \in 1..Len(kept) :
                            /\ disk[kept[i]].wp_post_id = n
                            /\ \A j \in (i + 1)..Len(kept) : disk[kept[j]].wp_post_id # n] ]
          /\ group_id_to_files' =
                [ g \in grps |->
                    SelectPaths(kept, { p \in DOMAIN disk : disk[p].group_id = g }) ]
    /\ pairs' = <<>>
    /\ processed_files' = {}
    /\ cursor' = 1
    /\ pc' = "pairing"
    /\ UNCHANGED << disk, covers, gatewayVars, run, side, stats, post_ids, save,
                    trace, history >>

\* Strategy 1 without its `break`: the last candidate of the group wins.
GroupMatchLast(ko_file) ==
    LET g == all_files[ko_file].group_id
        cands == IF g # NoGroup /\ g \in DOMAIN group_id_to_files
                 THEN SelectPaths(group_id_to_files[g],
                        { c \in DOMAIN all_files :
                            /\ c # ko_file
                            /\ InEnglishFolder(c)
                            /\ c \notin processed_files })
                 ELSE <<>>
    IN IF cands = <<>> THEN NoFile ELSE cands[Len(cands)]

\* Strategy 1: the first file of the primary's group that is another file,
\* lies in an english folder and is not processed.
GroupMatch(ko_file) ==
    LET g == all_files[ko_file].group_id
        cands == IF g # NoGroup /\ g \in DOMAIN group_id_to_files
                 THEN SelectPaths(group_id_to_files[g],
                        { c \in DOMAIN all_files :
                            /\ c # ko_file
                            /\ InEnglishFolder(c)
                            /\ c \notin processed_files })
                 ELSE <<>>
    IN IF cands = <<>> THEN NoFile ELSE Head(cands)

\* Strategy 2: the file that holds the post id stored as mirror_post_id.
MirrorMatch(ko_file) ==
    LET m == all_files[ko_file].mirror_post_id
    IN IF m # NoId /\ m \in DOMAIN post_id_to_file THEN post_id_to_file[m] ELSE NoFile

\* os.path.exists for a directory: some file of the disk lies in it.
DirExists(d) == \E p \in DOMAIN disk : d \in DirsOf[p]

\* Strategy 3: the same file name in the english subfolder next to the primary.
FolderMatch(ko_file) ==
    LET en_dir == EnglishDirOf[ko_file]
        cand   == EnglishTwinOf[ko_file]
    IN IF /\ DirExists(en_dir)
          /\ cand \in DOMAIN all_files
          /\ cand \notin processed_files
       THEN cand ELSE NoFile

\* The order of the older revision of the loop (mirror id first, no group
\* key): what the strategies give when the mirror id is consulted before the
\* group key.
ChooseSecondaryMirrorFirst(ko_file) ==
    IF MirrorMatch(ko_file) # NoFile
    THEN [ file |-> MirrorMatch(ko_file), via |-> "mirror" ]
    ELSE IF GroupMatch(ko_file) # NoFile
    THEN [ file |-> GroupMatch(ko_file), via |-> "group" ]
    ELSE IF FolderMatch(ko_file) # NoFile
    THEN [ file |-> FolderMatch(ko_file), via |-> "folder" ]
    ELSE [ file |-> NoFile, via |-> "none" ]

\* The strategies in the order the loop body applies them; `via` records which
\* one supplied en_file.
ChooseSecondary(ko_file) ==
    IF GroupMatch(ko_file) # NoFile
    THEN [ file |-> GroupMatch(ko_file), via |-> "group" ]
    ELSE IF MirrorMatch(ko_file) # NoFile
    THEN [ file |-> MirrorMatch(ko_file), via |-> "mirror" ]
    ELSE IF FolderMatch(ko_file) # NoFile
    THEN [ file |-> FolderMatch(ko_file), via |-> "folder" ]
    ELSE [ file |-> NoFile, via |-> "none" ]

\* A processed-set that swallows the whole group of the primary.
MarkProcessedGroup(ko_file, en_file) ==
    processed_files \cup {ko_file} \cup ({en_file} \ {NoFile})
        \cup { c \in DOMAIN all_files :
                 /\ all_files[c].group_id # NoGroup
                 /\ all_files[c].group_id = all_files[ko_file].group_id }

\* processed_files.add(ko_file); if en_file: processed_files.add(en_file)
MarkProcessed(ko_file, en_file) ==
    processed_files \cup {ko_file} \cup ({en_file} \ {NoFile})

\* One iteration of `for ko_file, ko_metadata in all_files.items()`.
PairStep ==
    /\ pc = "pairing"
    /\ cursor <= Len(file_order)
    /\ LET ko_file == file_order[cursor]
           sec     == ChooseSecondary(ko_file)
       IN IF ko_file \in processed_files \/ InEnglishFolder(ko_file)
          THEN UNCHANGED << pairs, processed_files >>
          ELSE /\ pairs' = Append(pairs,
                    [ ko_file |-> ko_file,
                      en_file |-> sec.file,
                      ko_existing_id |-> all_files[ko_file].wp_post_id,
                      en_existing_id |-> IF sec.file = NoFile THEN NoId
                                         ELSE all_files[sec.file].wp_post_id,
                      via |-> sec.via ])
               /\ processed_files' = MarkProcessed(ko_file, sec.file)
    /\ cursor' = cursor + 1
    /\ UNCHANGED << disk, covers, gatewayVars, run, pc, side, all_files,
                    file_order, post_id_to_file, group_id_to_files, stats,
                    post_ids, save, trace, history >>

\* `return pairs`: the loop is exhausted.
CollectReturn ==
    /\ pc = "pairing"
    /\ cursor > Len(file_order)
    /\ pc' = "paired"
    /\ UNCHANGED << disk, covers, gatewayVars, run, side, collectVars, pairs,
                    cursor, stats, post_ids, save, trace, history >>

(***************************************************************************)
(* markdown_processor.save_metadata_to_file, one action per I/O step.       *)
(***************************************************************************)

\* The slack of the length check of save_metadata_to_file.
SanityMargin == 100

\* len() of the text of a document: the delimiters, one line per key that is
\* present, the body, and the characters a rewrite would lose.
Length(doc) ==
    8 + (IF doc.publish = "true" THEN 14 ELSE IF doc.publish = "false" THEN 15 ELSE 0)
      + (IF doc.wp_post_id # NoId THEN 14 ELSE 0)
      + (IF doc.mirror_post_id # NoId THEN 18 ELSE 0)
      + (IF doc.group_id # NoGroup THEN 12 ELSE 0)
      + 4 + doc.lost

\* A save that writes a front matter of the one key alone.
MergeReplaces(doc, key, value) ==
    IF key = "wp-post-id"
    THEN [ doc EXCEPT !.wp_post_id = value, !.mirror_post_id = NoId, !.group_id = NoGroup ]
    ELSE [ doc EXCEPT !.mirror_post_id = value, !.wp_post_id = NoId, !.group_id = NoGroup ]

\* A save that forgets to set the key.
MergeNothing(doc, key, value) == doc

\* post.metadata[metadata_key] = metadata_value
Merge(doc, key, value) ==
    IF key = "wp-post-id" THEN [ doc EXCEPT !.wp_post_id = value ]
    ELSE IF key = "mirror_post_id" THEN [ doc EXCEPT !.mirror_post_id = value ]
    ELSE doc

\* frontmatter.loads: the metadata map and the content of a text.
Loads(doc) ==
    [ metadata |-> [ publish        |-> doc.publish,
                     wp_post_id     |-> doc.wp_post_id,
                     mirror_post_id |-> doc.mirror_post_id,
                     group_id       |-> doc.group_id ],
      content  |-> doc.body ]

\* The field of the metadata map a key names.
FieldOf(key) == IF key = "wp-post-id" THEN "wp_post_id" ELSE "mirror_post_id"

\* frontmatter.dumps writes the normal form: nothing of `lost` survives.
Dumps(doc) == [ doc EXCEPT !.lost = 0 ]

\* A length check that also rejects a text exactly 100 characters shorter.
TooShortInclusive(new, original) == Length(new) <= Length(original) - SanityMargin

\* len(new) < len(original) - 100
TooShort(new, original) == Length(new) < Length(original) - SanityMargin

\* The temporary file of a call: a fresh name in the directory of the file.
TempIn == [ f \in KnownPaths |-> [ n \in 1..Len(TempLetters) |-> Join(Dirname(f), TempName(n)) ] ]

\* A rewrite in place: the "temporary" file is the file itself.
TempFileInPlace(file_path) == file_path

TempFileFor(file_path) == TempIn[file_path][run]

IdleSave ==
    [ at |-> "idle", file |-> NoFile, key |-> "", value |-> NoId,
      before |-> Unparsable, original_content |-> Unparsable,
      new_content |-> Unparsable, temp_file |-> NoFile, ok |-> FALSE,
      raised |-> FALSE ]

\* The frame of save_metadata_to_file(file_path, metadata_key, metadata_value);
\* `before` remembers the file as it was when the call began.
CallSave(file_path, key, value) ==
    [ IdleSave EXCEPT !.at = "read", !.file = file_path, !.key = key,
                      !.value = value, !.before = disk[file_path] ]

\* `return False` / `return True`; the frame keeps the name of its temporary
\* file, if it made one.
Returned(ok) == [ save EXCEPT !.at = "returned", !.ok = ok ]

\* The except-branch returns False.
Raised == [ save EXCEPT !.at = "returned", !.ok = FALSE, !.raised = TRUE ]

\* The disk without a file (os.unlink).
Unlink(path) == [ p \in (DOMAIN disk) \ {path} |-> disk[p] ]

\* An except-branch that leaves the temporary file where it is.
CleanupNothing == disk

\* os.unlink(temp_file) of the second check and of the except-branch: unlink
\* the temporary file if there is one.
CleanupTemp ==
    IF save.temp_file # NoFile /\ save.temp_file \in DOMAIN disk
       /\ save.temp_file # save.file
    THEN Unlink(save.temp_file)
    ELSE disk

saveFrame == << covers, gatewayVars, run, pc, side, collectVars, pairs, cursor,
                stats, post_ids, trace, history >>

\* Steps 1-5: read, parse, set the key, serialize, first length check.
SavePrepare ==
    /\ pc \in { "save", "unit" }
    /\ save.at = "read"
    /\ \E fault \in BOOLEAN :
          IF fault \/ ~disk[save.file].wellformed
          THEN save' = Raised
          ELSE LET original == disk[save.file]
                   new      == Dumps(Merge(original, save.key, save.value))
               IN IF TooShort(new, original)
                  THEN save' = Returned(FALSE)
                  ELSE save' = [ save EXCEPT !.at = "create",
                                             !.original_content = original,
                                             !.new_content = new ]
    /\ UNCHANGED << disk, saveFrame >>

\* Step 6a: NamedTemporaryFile(...) creates the empty file.
SaveCreateTemp ==
    /\ pc \in { "save", "unit" }
    /\ save.at = "create"
    /\ \E fault \in BOOLEAN :
          IF fault
          THEN /\ save' = Raised
               /\ disk' = disk
          ELSE /\ save' = [ save EXCEPT !.at = "write",
                                        !.temp_file = TempFileFor(save.file) ]
               /\ disk' = [ p \in (DOMAIN disk) \cup { TempFileFor(save.file) } |->
                              IF p = TempFileFor(save.file) THEN Unparsable ELSE disk[p] ]
    /\ UNCHANGED saveFrame

\* Step 6b: tmp.write(new_content) and the close of the with-block.
SaveWriteTemp ==
    /\ pc \in { "save", "unit" }
    /\ save.at = "write"
    /\ \E fault \in BOOLEAN :
          IF fault
          THEN /\ save' = Raised
               /\ disk' = CleanupTemp
          ELSE /\ save' = [ save EXCEPT !.at = "verify" ]
               /\ disk' = [ disk EXCEPT ![save.temp_file] = save.new_content ]
    /\ UNCHANGED saveFrame

\* Step 7: read the temporary file back and repeat the length check.
SaveVerify ==
    /\ pc \in { "save", "unit" }
    /\ save.at = "verify"
    /\ \E fault \in BOOLEAN :
          IF fault
          THEN /\ save' = Raised
               /\ disk' = CleanupTemp
          ELSE IF TooShort(disk[save.temp_file], save.original_content)
          THEN /\ save' = Returned(FALSE)
               /\ disk' = CleanupTemp
          ELSE /\ save' = [ save EXCEPT !.at = "move" ]
               /\ disk' = disk
    /\ UNCHANGED saveFrame

\* Step 8: shutil.move(temp_file, file_path), a rename within one directory:
\* it replaces the file or fails and leaves it.
SaveMove ==
    /\ pc \in { "save", "unit" }
    /\ save.at = "move"
    /\ \E fault \in BOOLEAN :
          IF fault
          THEN /\ save' = Raised
               /\ disk' = CleanupTemp
               /\ history' = history
          ELSE /\ save' = Returned(TRUE)
               /\ disk' = [ p \in (DOMAIN disk) \ ({save.temp_file} \ {save.file}) |->
                              IF p = save.file THEN disk[save.temp_file] ELSE disk[p] ]
               /\ history' = [ history EXCEPT !.unsaved = @ \ {save.file} ]
    /\ UNCHANGED << covers, gatewayVars, run, pc, side, collectVars, pairs, cursor,
                    stats, post_ids, trace >>

(***************************************************************************)
(* process_pairs with PolylangPublisher, one action per request.            *)
(***************************************************************************)

\* What a request can come back with: an exception of the transport, or a
\* response with a status code and, for the link endpoint, the `success`
\* field of its JSON body.
StatusCodes == { 200, 201, 202, 204, 301, 302, 304, 400, 401, 404, 500, 503 }

NoResponse == [ raised |-> FALSE, status |-> 0, success |-> FALSE ]

TransportError == [ raised |-> TRUE, status |-> 0, success |-> FALSE ]

Responses ==
    { TransportError } \cup
    { [ raised |-> FALSE, status |-> s, success |-> f ] : s \in StatusCodes, f \in BOOLEAN }

\* The requests whose result process_pairs looks at.
RemoteOps == { "create", "update", "upload", "feature", "link" }

\* 'success' of the result of a request: `status_code in [200, 201]`, for
\* link_translations also `data.get('success')`; the except-branches return
\* success False.
Succeeded(op, r) ==
    /\ ~r.raised
    /\ r.status \in { 200, 201 }
    /\ op = "link" => r.success

\* The results a request of a kind can have.
Outcomes(op) == { Succeeded(op, r) : r \in Responses }

ZeroStats ==
    [ ko_created |-> 0, ko_updated |-> 0, en_created |-> 0, en_updated |-> 0,
      linked |-> 0, failed |-> 0, thumbnail_set |-> 0 ]

NoPostIds == [ ko |-> NoId, en |-> NoId ]

\* pair['ko_file'] / pair['en_file'] and the ids stored at pairing time.
PairFile(s) == IF s = "ko" THEN pairs[cursor].ko_file ELSE pairs[cursor].en_file

\* A reconciler that never looks at the stored id.
ExistingIdNone(s) == NoId

ExistingId(s) ==
    IF s = "ko" THEN pairs[cursor].ko_existing_id ELSE pairs[cursor].en_existing_id

\* find_cover_image: a cover in the directory of the file, else in its parent.
CoverDirsOf ==
    [ p \in KnownPaths |->
        {Dirname(p)} \cup (IF Dirname(Dirname(p)) # Dirname(p)
                           THEN {Dirname(Dirname(p))} ELSE {}) ]

find_cover_image(path) == CoverDirsOf[path] \cap covers # {}

\* One entry of the history of a pair.
Event(op, file, ok, id) == [ op |-> op, file |-> file, ok |-> ok, id |-> id ]

\* The history of the current pair with one more entry; of a pair that ends
\* with this entry, only the entry is kept.
Log(event, ends) == IF ends THEN << event >> ELSE Append(trace, event)

\* The cover step of this side is the last step of the pair.
LastOfPair == side = "ko" /\ pairs[cursor].en_file = NoFile

\* The locals of a run that has ended or not begun.
ResetLocals ==
    /\ all_files' = << >>
    /\ file_order' = << >>
    /\ post_id_to_file' = << >>
    /\ group_id_to_files' = << >>
    /\ processed_files' = {}

\* main after collect_language_pairs: nothing to do, or process_pairs begins.
StartProcess ==
    /\ pc = "paired"
    /\ IF pairs = << >>
       THEN pc' = "done" /\ cursor' = cursor
       ELSE pc' = "parse" /\ cursor' = 1
    /\ side' = "ko"
    /\ stats' = ZeroStats
    /\ post_ids' = NoPostIds
    /\ trace' = << >>
    /\ ResetLocals
    /\ UNCHANGED << disk, covers, gatewayVars, run, pairs, save, history >>

\* A loop that is left at the first `continue`.
NextPairBreak ==
    /\ pc' = "done"
    /\ cursor' = cursor
    /\ side' = "ko"
    /\ post_ids' = NoPostIds

\* `continue` / end of the loop body: the next pair, or the summary.
NextPair ==
    /\ IF cursor < Len(pairs)
       THEN pc' = "parse" /\ cursor' = cursor + 1
       ELSE pc' = "done" /\ cursor' = cursor
    /\ side' = "ko"
    /\ post_ids' = NoPostIds

\* A loop body that requests the link as soon as the primary is done.
AfterCoverLinksAtOnce ==
    IF pairs[cursor].en_file # NoFile
    THEN pc' = "link" /\ UNCHANGED << side, cursor, post_ids >>
    ELSE NextPair

\* A loop body that requests the link for a pair without a secondary too.
AfterCoverAlwaysLinks ==
    IF side = "en" \/ pairs[cursor].en_file = NoFile
    THEN pc' = "link" /\ UNCHANGED << side, cursor, post_ids >>
    ELSE pc' = "parse" /\ side' = "en" /\ UNCHANGED << cursor, post_ids >>

\* After the cover step of a side: the english side, the link, or the next pair.
AfterCover ==
    IF side = "en"
    THEN pc' = "link" /\ UNCHANGED << side, cursor, post_ids >>
    ELSE IF pairs[cursor].en_file # NoFile
    THEN pc' = "parse" /\ side' = "en" /\ UNCHANGED << cursor, post_ids >>
    ELSE NextPair

\* parse_markdown_file(pair[...]) in process_pairs; a None result makes the
\* next line raise, and nothing in process_pairs or main catches it.
Parse ==
    /\ pc = "parse"
    /\ \E unreadable \in BOOLEAN :
          IF unreadable \/ ~Parses(PairFile(side))
          THEN pc' = "crashed"
          ELSE pc' = "publish"
    /\ trace' = IF side = "ko" THEN << >> ELSE trace
    /\ UNCHANGED << disk, covers, gatewayVars, run, side, collectVars, pairs,
                    cursor, stats, post_ids, save, history >>

\* publish_post answered 200/201: the id of the response is the post.
PublishSucceeded(op, file, id) ==
    /\ op = "update" => id \in posts
    /\ posts' = posts \cup {id}
    /\ next_id' = IF op = "create" THEN next_id + 1 ELSE next_id
    /\ post_ids' = [ post_ids EXCEPT ![side] = id ]
    /\ pc' = "language"
    /\ trace' = Log(Event(op, file, TRUE, id), FALSE)
    /\ history' =
          IF op = "create"
          THEN [ history EXCEPT !.has_post = @ \cup {file},
                                !.unsaved = @ \cup {file},
                                !.twice = @ \cup ({file} \cap history.has_post),
                                !.creates = @ + 1 ]
          ELSE history
    /\ UNCHANGED << stats, side, cursor, save >>

\* What the run has seen once this publish request has failed.
FailedHistory(op, file) ==
    [ history EXCEPT
         !.clean = FALSE,
         !.creates = IF op = "create" THEN @ + 1 ELSE @,
         !.ko_failed = IF side = "ko" THEN @ + 1 ELSE @,
         !.upd_failed = IF op = "update"
                        THEN @ \cup { << file, IF side = "ko"
                                               THEN pairs[cursor].ko_existing_id
                                               ELSE pairs[cursor].en_existing_id >> }
                        ELSE @ ]

\* A reconciler that goes on to the metadata write after a failed publish.
PublishFailedThenSave(op, file) ==
    /\ stats' = [ stats EXCEPT !.failed = @ + 1 ]
    /\ trace' = Log(Event(op, file, FALSE, NoId), FALSE)
    /\ history' = FailedHistory(op, file)
    /\ save' = CallSave(file, "wp-post-id", 1)
    /\ pc' = "save"
    /\ UNCHANGED << posts, next_id, side, cursor, post_ids >>

\* A process_pairs that counts the failure and goes on with the pair.
PublishFailedGoesOn(op, file) ==
    /\ stats' = [ stats EXCEPT !.failed = @ + 1 ]
    /\ trace' = Log(Event(op, file, FALSE, NoId), FALSE)
    /\ history' = FailedHistory(op, file)
    /\ AfterCover
    /\ UNCHANGED << posts, next_id, save >>

\* publish_post returned success False: process_pairs counts the failure and
\* continues with the next pair.
PublishFailed(op, file) ==
    /\ stats' = [ stats EXCEPT !.failed = @ + 1 ]
    /\ trace' = Log(Event(op, file, FALSE, NoId), TRUE)
    /\ history' = FailedHistory(op, file)
    /\ NextPair
    /\ UNCHANGED << posts, next_id, save >>

\* publish_post: POST posts/<id> when post_id is truthy, else POST posts.
Publish ==
    /\ pc = "publish"
    /\ \E ok \in Outcomes(IF ExistingId(side) # NoId THEN "update" ELSE "create") :
          LET file == PairFile(side)
              op   == IF ExistingId(side) # NoId THEN "update" ELSE "create"
              id   == IF op = "update" THEN ExistingId(side) ELSE next_id
          IN IF ok THEN PublishSucceeded(op, file, id) ELSE PublishFailed(op, file)
    /\ UNCHANGED << disk, covers, translations, response, run, collectVars, pairs >>

\* A summary that books every publish as an update.
CountedAsUpdate(s) ==
    IF s = "ko" THEN [ stats EXCEPT !.ko_updated = @ + 1 ]
    ELSE [ stats EXCEPT !.en_updated = @ + 1 ]

\* The counters after a successful publish of a side: updated when the pair
\* list held an id for it, created otherwise.
Counted(s) ==
    IF s = "ko"
    THEN IF ExistingId("ko") # NoId
         THEN [ stats EXCEPT !.ko_updated = @ + 1 ]
         ELSE [ stats EXCEPT !.ko_created = @ + 1 ]
    ELSE IF ExistingId("en") # NoId
         THEN [ stats EXCEPT !.en_updated = @ + 1 ]
         ELSE [ stats EXCEPT !.en_created = @ + 1 ]

\* _set_polylang_language (its outcome is only printed), the return to
\* process_pairs, the counter of the side, and the call of
\* save_metadata_to_file(file, 'wp-post-id', post_id).
SetLanguage ==
    /\ pc = "language"
    /\ trace' = Log(Event("language", PairFile(side), TRUE, post_ids[side]), FALSE)
    /\ stats' = Counted(side)
    /\ save' = CallSave(PairFile(side), "wp-post-id", post_ids[side])
    /\ pc' = "save"
    /\ UNCHANGED << disk, covers, gatewayVars, run, side, collectVars, pairs,
                    cursor, post_ids, history >>

\* A reconciler that gives the pair up when the write returned False.
SaveResultChecked(ok) ==
    IF ok
    THEN IF find_cover_image(PairFile(side))
         THEN pc' = "upload" /\ UNCHANGED << side, cursor, post_ids >>
         ELSE AfterCover
    ELSE NextPair

\* process_pairs does not look at what save_metadata_to_file returned: the
\* cover step of the side is next, whatever `ok` is.
SaveResultIgnored(ok) ==
    IF find_cover_image(PairFile(side))
    THEN pc' = "upload" /\ UNCHANGED << side, cursor, post_ids >>
    ELSE AfterCover

\* save_metadata_to_file has returned; then find_cover_image.
AfterSave ==
    /\ pc = "save"
    /\ save.at = "returned"
    /\ trace' = Log(Event("save", save.file, save.ok, save.value),
                    LastOfPair /\ ~find_cover_image(PairFile(side)))
    /\ history' = IF save.ok THEN history ELSE [ history EXCEPT !.clean = FALSE ]
    /\ save' = IdleSave
    /\ SaveResultIgnored(save.ok)
    /\ UNCHANGED << disk, covers, gatewayVars, run, collectVars, pairs, stats >>

\* A reconciler that treats a failed cover like a failed publish.
CoverFailedCounted ==
    /\ stats' = [ stats EXCEPT !.failed = @ + 1 ]
    /\ NextPair

\* thumbnail_result['success'] is False: a message is printed, nothing else.
CoverFailed ==
    /\ stats' = stats
    /\ AfterCover

\* set_featured_image, first request: the upload to media.
Upload ==
    /\ pc = "upload"
    /\ \E ok \in Outcomes("upload") :
          /\ trace' = Log(Event("upload", PairFile(side), ok, post_ids[side]),
                          LastOfPair /\ ~ok)
          /\ IF ok
             THEN pc' = "feature" /\ UNCHANGED << side, cursor, post_ids, stats >>
             ELSE CoverFailed
    /\ UNCHANGED << disk, covers, gatewayVars, run, collectVars, pairs, save,
                    history >>

\* set_featured_image, second request: featured_media on the post.
Feature ==
    /\ pc = "feature"
    /\ \E ok \in Outcomes("feature") :
          /\ trace' = Log(Event("feature", PairFile(side), ok, post_ids[side]),
                          LastOfPair)
          /\ IF ok
             THEN /\ stats' = [ stats EXCEPT !.thumbnail_set = @ + 1 ]
                  /\ AfterCover
             ELSE CoverFailed
    /\ UNCHANGED << disk, covers, gatewayVars, run, collectVars, pairs, save,
                    history >>

\* A reconciler that only prints a failed link.
LinkFailedUncounted ==
    /\ stats' = stats
    /\ translations' = translations
    /\ posts' = posts

\* A reconciler that answers a failed link by deleting the two posts.
LinkFailedRollsBack ==
    /\ stats' = [ stats EXCEPT !.failed = @ + 1 ]
    /\ translations' = translations
    /\ posts' = posts \ { post_ids.ko, post_ids.en }

\* link_result['success'] is False: the failure is counted, nothing else.
LinkFailed ==
    /\ stats' = [ stats EXCEPT !.failed = @ + 1 ]
    /\ translations' = translations
    /\ posts' = posts

\* link_translations(ko_post_id, en_post_id) and its counters.
Link ==
    /\ pc = "link"
    /\ \E ok \in Outcomes("link") :
          /\ trace' = Log(Event("link", NoFile, ok, post_ids.en), TRUE)
          /\ IF ok
             THEN /\ translations' = translations \cup { << post_ids.ko, post_ids.en >> }
                  /\ stats' = [ stats EXCEPT !.linked = @ + 1 ]
                  /\ posts' = posts
             ELSE LinkFailed
    /\ NextPair
    /\ UNCHANGED << disk, covers, next_id, response, run, collectVars, pairs, save,
                    history >>

(***************************************************************************)
(* The process as a whole: it can be killed between any two steps, and main *)
(* can be run again.                                                        *)
(***************************************************************************)

\* Number of runs of main a behaviour holds.
MaxRuns == 2

Running ==
    pc \in { "collect", "pairing", "paired", "parse", "publish", "language",
             "save", "upload", "feature", "link" }

\* The process is killed: its memory is gone, the disk and the gateway stay
\* as they are (a temporary file included).
Interrupt ==
    /\ Running \/ (pc = "unit" /\ save.at \notin { "returned", "killed" })
    /\ pc' = IF pc = "unit" THEN "unit" ELSE "stopped"
    /\ save' = IF save.at \in { "idle", "returned" } THEN save
               ELSE [ save EXCEPT !.at = "killed" ]
    /\ history' = history
    /\ ResetLocals
    /\ pairs' = << >>
    /\ cursor' = 1
    /\ side' = "ko"
    /\ stats' = ZeroStats
    /\ post_ids' = NoPostIds
    /\ trace' = << >>
    /\ UNCHANGED << disk, covers, gatewayVars, run >>

\* main is started again on the same folder.
Rerun ==
    /\ pc \in { "done", "stopped", "crashed" }
    /\ run < MaxRuns
    /\ run' = run + 1
    /\ pc' = "collect"
    /\ history' = [ history EXCEPT
                       !.prev = IF pc # "done" THEN "killed"
                                ELSE IF history.clean THEN "clean" ELSE "failed",
                       !.clean = TRUE, !.creates = 0, !.ko_failed = 0,
                       !.upd_failed = {}, !.upd_failed_prev = history.upd_failed ]
    /\ ResetLocals
    /\ pairs' = << >>
    /\ cursor' = 1
    /\ side' = "ko"
    /\ stats' = ZeroStats
    /\ post_ids' = NoPostIds
    /\ save' = IdleSave
    /\ trace' = << >>
    /\ UNCHANGED << disk, covers, gatewayVars >>

NoHistory ==
    [ has_post |-> {}, unsaved |-> {}, twice |-> {}, clean |-> TRUE,
      prev |-> "none", creates |-> 0, ko_failed |-> 0,
      upd_failed |-> {}, upd_failed_prev |-> {} ]

\* What every initial state shares: nothing has run yet.
InitLocals ==
    /\ run = 1
    /\ side = "ko"
    /\ all_files = << >>
    /\ file_order = << >>
    /\ post_id_to_file = << >>
    /\ group_id_to_files = << >>
    /\ processed_files = {}
    /\ pairs = << >>
    /\ cursor = 1
    /\ stats = ZeroStats
    /\ post_ids = NoPostIds
    /\ trace = << >>
    /\ history = NoHistory
    /\ translations = {}

\* The gateway holds the posts the documents name and hands out ids above
\* every id a document names (WordPress never reuses a post id).
StoredIds == { disk[p].wp_post_id : p \in DOMAIN disk } \ {NoId}

NamedIds == StoredIds \cup ({ disk[p].mirror_post_id : p \in DOMAIN disk } \ {NoId})

InitGateway ==
    /\ response = NoResponse
    /\ posts = StoredIds
    /\ next_id = 1 + (CHOOSE n \in NamedIds \cup {0} : \A m \in NamedIds : m <= n)


(***************************************************************************)
(* Pairing on its own: every combination of front matter over four files.   *)
(***************************************************************************)

PublishValues == { "true", "false" }

PrimaryIds == { 0, 2 }

SecondaryIds == { 0, 1 }

MirrorIds == { 0, 1, 2 }

GroupValues == { "", "g" }

InitResolve ==
    /\ \E pa \in { "true" }, pb \in PublishValues,
          ia \in PrimaryIds, ib \in PrimaryIds,
          ma \in MirrorIds, mb \in MirrorIds,
          ga \in GroupValues, gb \in GroupValues,
          pe \in PublishValues, pf \in PublishValues,
          ie \in SecondaryIds, if \in SecondaryIds,
          ge \in GroupValues, gf \in GroupValues :
          disk = ( FileA :> Doc(pa, ia, ma, ga, 0) @@
                   FileB :> Doc(pb, ib, mb, gb, 0) @@
                   FileEnA :> Doc(pe, ie, NoId, ge, 0) @@
                   FileEnglishA :> Doc(pf, if, NoId, gf, 0) )
    /\ covers = {}
    /\ pc = "collect"
    /\ save = IdleSave
    /\ InitLocals
    /\ InitGateway

NextResolve == BuildIndex \/ PairStep \/ CollectReturn

SpecResolve == InitResolve /\ [][NextResolve]_vars

(***************************************************************************)
(* collect_language_pairs called again on the folder it was called on: the  *)
(* list the earlier call returned is kept in `trace`.                       *)
(***************************************************************************)

CollectAgain ==
    /\ pc = "paired"
    /\ run < MaxRuns
    /\ run' = run + 1
    /\ trace' = pairs
    /\ pc' = "collect"
    /\ pairs' = << >>
    /\ cursor' = 1
    /\ ResetLocals
    /\ UNCHANGED << disk, covers, gatewayVars, side, stats, post_ids, save, history >>

InitTwice ==
    /\ \E ga \in GroupValues, ge \in GroupValues, gf \in GroupValues,
          mb \in SecondaryIds, if \in SecondaryIds :
          disk = ( FileA :> Doc("true", NoId, NoId, ga, 0) @@
                   FileB :> Doc("true", NoId, mb, NoGroup, 0) @@
                   FileEnA :> Doc("true", NoId, NoId, ge, 0) @@
                   FileEnglishA :> Doc("true", if, NoId, gf, 0) )
    /\ covers = {}
    /\ pc = "collect"
    /\ save = IdleSave
    /\ InitLocals
    /\ InitGateway

NextTwice == BuildIndex \/ PairStep \/ CollectReturn \/ CollectAgain

SpecTwice == InitTwice /\ [][NextTwice]_vars

(***************************************************************************)
(* The whole program: main, killed or not, and run again.                   *)
(***************************************************************************)

LostValues == { 0, 120 }

\* The english document of the folder: where it is and what it holds.  The
\* last one lies in en/ and shares no group key with a.md.
SecondaryDocuments ==
    { << FileEnglishA, Doc("true", NoId, NoId, "g", 0) >>,
      << FileEnglishA, Doc("true", 2, NoId, NoGroup, 0) >>,
      << FileEnglishA, Doc("false", 2, NoId, "g", 0) >>,
      << FileEnglishA, Doc("absent", NoId, NoId, NoGroup, 0) >>,
      << FileEnA, Doc("true", NoId, NoId, NoGroup, 0) >> }

Init ==
    /\ \E ia \in { 0, 1 }, la \in LostValues, e \in SecondaryDocuments,
          b \in { Doc("true", NoId, NoId, NoGroup, 0), Doc("true", 3, 2, NoGroup, 0),
                  Doc("false", NoId, NoId, NoGroup, 0) } :
          disk = ( FileA :> Doc("true", ia, NoId, "g", la) @@
                   e[1] :> e[2] @@
                   FileB :> b )
    /\ covers \in SUBSET { Root }
    /\ pc = "collect"
    /\ save = IdleSave
    /\ InitLocals
    /\ InitGateway

Next ==
    \/ BuildIndex
    \/ PairStep
    \/ CollectReturn
    \/ StartProcess
    \/ Parse
    \/ Publish
    \/ SetLanguage
    \/ SavePrepare
    \/ SaveCreateTemp
    \/ SaveWriteTemp
    \/ SaveVerify
    \/ SaveMove
    \/ AfterSave
    \/ Upload
    \/ Feature
    \/ Link
    \/ Interrupt
    \/ Rerun

Spec == Init /\ [][Next]_vars

(***************************************************************************)
(* One run of main that nobody kills: every step it can take is taken in    *)
(* the end (every request has a timeout).                                   *)
(***************************************************************************)

NextRun ==
    \/ BuildIndex
    \/ PairStep
    \/ CollectReturn
    \/ StartProcess
    \/ Parse
    \/ Publish
    \/ SetLanguage
    \/ SavePrepare
    \/ SaveCreateTemp
    \/ SaveWriteTemp
    \/ SaveVerify
    \/ SaveMove
    \/ AfterSave
    \/ Upload
    \/ Feature
    \/ Link

SpecRun == Init /\ [][NextRun]_vars /\ WF_vars(NextRun)

(***************************************************************************)
(* save_metadata_to_file on its own: one call on one file, killed or not.   *)
(***************************************************************************)

SaveKeys == { "wp-post-id", "mirror_post_id" }

SaveValues == { 1, 2 }

\* Numbers of characters a rewrite loses, on both sides of the margin.
SaveLostValues == { 0, SanityMargin, SanityMargin + 1, SanityMargin + 20 }

InitSave ==
    /\ \E wf \in BOOLEAN, pv \in PublishValues, id \in PrimaryIds,
          m \in MirrorIds, g \in GroupValues, l \in SaveLostValues :
          disk = ( FileA :> (IF wf THEN Doc(pv, id, m, g, l) ELSE Unparsable) )
    /\ covers = {}
    /\ pc = "unit"
    /\ \E key \in SaveKeys, value \in SaveValues :
          save = CallSave(FileA, key, value)
    /\ InitLocals
    /\ InitGateway

NextSave ==
    \/ SavePrepare
    \/ SaveCreateTemp
    \/ SaveWriteTemp
    \/ SaveVerify
    \/ SaveMove
    \/ Interrupt

SpecSave == InitSave /\ [][NextSave]_vars

(***************************************************************************)
(* Properties of the pair list.                                             *)
(***************************************************************************)

\* The documents in the slots of a pair, and of the pairs before pair i.
SlotsOf(pair) == {pair.ko_file} \cup ({pair.en_file} \ {NoFile})

ConsumedBefore(i) == UNION { SlotsOf(pairs[j]) : j \in 1..(i - 1) }

\* The eligible documents: what the index pass kept.
Eligible == { p \in DOMAIN disk : Parses(p) }

\* Position of a document in discovery order.
Position(p) == CHOOSE k \in 1..Len(file_order) : file_order[k] = p

\* The documents that could serve pair i through the group key: eligible,
\* another file than the primary, in an english folder, not in an earlier pair,
\* carrying the primary's (non-empty) group id.
GroupCandidates(i) ==
    { c \in DOMAIN all_files :
        /\ c # pairs[i].ko_file
        /\ c \in EnglishFolderPaths
        /\ c \notin ConsumedBefore(i)
        /\ all_files[pairs[i].ko_file].group_id # NoGroup
        /\ all_files[c].group_id = all_files[pairs[i].ko_file].group_id }

\* The documents that hold the post id stored as the primary's mirror id.
MirrorHolders(i) ==
    { c \in DOMAIN all_files :
        /\ all_files[pairs[i].ko_file].mirror_post_id # NoId
        /\ all_files[c].wp_post_id = all_files[pairs[i].ko_file].mirror_post_id }

\* C1: no document fills two slots of the pair list: the slots of a pair are
\* disjoint from the slots of every earlier pair, and a pair's secondary is
\* not its own primary.
C1_NoDocumentTwice ==
    \A i \in 1..Len(pairs) :
        /\ SlotsOf(pairs[i]) \cap ConsumedBefore(i) = {}
        /\ pairs[i].en_file # pairs[i].ko_file

\* C2: once collect_language_pairs has returned, every eligible document is
\* the primary or the secondary of some pair.
C2_EveryEligiblePaired ==
    pc = "paired" => Eligible \subseteq ConsumedBefore(Len(pairs) + 1)

\* C2 as amended: once collect_language_pairs has returned, every eligible
\* document outside the english folders is in the pair list, and every
\* document of the pair list is eligible.
C2_EveryPrimaryPaired ==
    pc = "paired" =>
        /\ (Eligible \ EnglishFolderPaths) \subseteq ConsumedBefore(Len(pairs) + 1)
        /\ ConsumedBefore(Len(pairs) + 1) \subseteq Eligible

\* C2 witness: the pair list is complete, holds a pair, and an eligible
\* document of an english folder is in no pair.
C2_Witness ==
    /\ pc = "paired"
    /\ Len(pairs) >= 2
    /\ \E p \in Eligible \cap EnglishFolderPaths : p \notin ConsumedBefore(Len(pairs) + 1)

\* C8: for every pair, if an unconsumed eligible english-folder document
\* shares the primary's group id then the secondary is such a document and
\* was supplied by the group strategy; the mirror strategy supplied it only
\* if no such document exists, and the folder strategy only if moreover no
\* document holds the primary's mirror id.
C8_StrategyPriority ==
    \A i \in 1..Len(pairs) :
        /\ GroupCandidates(i) # {} =>
              pairs[i].via = "group" /\ pairs[i].en_file \in GroupCandidates(i)
        /\ pairs[i].via = "mirror" => GroupCandidates(i) = {}
        /\ pairs[i].via = "folder" =>
              GroupCandidates(i) = {} /\ MirrorHolders(i) = {}

\* C8 witness: a pair formed through the group key although the primary's
\* mirror id is held by a different document and the same-named file of the
\* adjacent english folder is a different, eligible, unconsumed document.
C8_Witness ==
    \E i \in 1..Len(pairs) :
        /\ pairs[i].via = "group"
        /\ \E m \in MirrorHolders(i) : m # pairs[i].en_file
        /\ EnglishTwinOf[pairs[i].ko_file] \in DOMAIN all_files
        /\ EnglishTwinOf[pairs[i].ko_file] \notin ConsumedBefore(i)
        /\ EnglishTwinOf[pairs[i].ko_file] # pairs[i].en_file

\* C9: a secondary supplied by the group strategy is the group candidate that
\* comes first in discovery order.
C9_FirstGroupCandidate ==
    \A i \in 1..Len(pairs) :
        pairs[i].via = "group" =>
            /\ pairs[i].en_file \in GroupCandidates(i)
            /\ \A c \in GroupCandidates(i) :
                  Position(pairs[i].en_file) <= Position(c)

\* C9 witness: a pair formed through the group key with two candidates.
C9_Witness ==
    \E i \in 1..Len(pairs) :
        /\ pairs[i].via = "group"
        /\ Cardinality(GroupCandidates(i)) >= 2

\* C10: the secondary a pair got from the mirror strategy (Strategy B) is in
\* no earlier pair, as primary or as secondary.
C10_MirrorMatchUnconsumed ==
    \A i \in 1..Len(pairs) :
        pairs[i].via = "mirror" => pairs[i].en_file \notin ConsumedBefore(i)

(***************************************************************************)
(* Claims about the reconciler and the metadata write.                      *)
(***************************************************************************)

C4_CreateOnlyWithoutPersistedId ==
    [][ (pc = "publish" /\ history'.creates = history.creates + 1) =>
           /\ disk[PairFile(side)].wp_post_id = NoId
           /\ PairFile(side) \in history.has_post =>
                 PairFile(side) \in history.unsaved ]_vars

C4_Witness ==
    /\ run = 2
    /\ pc = "language"
    /\ PairFile(side) \in history.twice
    /\ disk[PairFile(side)].wp_post_id = NoId

\* The last request was a publish request that failed.
LastFailedPublish ==
    /\ trace # << >>
    /\ trace[Len(trace)].op \in { "create", "update" }
    /\ ~trace[Len(trace)].ok

\* C5: the step in which a publish request fails starts no metadata write and
\* leaves every file as it was.
C5_FailedPublishWritesNothing ==
    [][ LastFailedPublish' => (save'.at = "idle" /\ disk' = disk) ]_vars

C5_Witness ==
    /\ LastFailedPublish
    /\ trace[1].op = "update"
    /\ trace[1].file = FileA
    /\ pc = "parse"
    /\ cursor = 2

\* C6 as stated: the request that follows a successful create or update of a
\* document in the history of a pair is the write of its id.
C6_IdWrittenBeforeFurtherCall ==
    \A i \in 1..Len(trace) :
        (trace[i].op \in { "create", "update" } /\ trace[i].ok /\ i < Len(trace))
            => trace[i + 1].op = "save"

\* C7: while a call of save_metadata_to_file has not returned True, the file
\* is what it was when the call began; when it has, the file is the new
\* content and both length checks held.
C7_SaveAllOrNothing ==
    save.file # NoFile =>
        /\ save.file \in DOMAIN disk
        /\ IF save.at = "returned" /\ save.ok
           THEN /\ disk[save.file] = save.new_content
                /\ ~TooShort(save.new_content, save.before)
           ELSE disk[save.file] = save.before

C7_Witness ==
    /\ save.at = "killed"
    /\ save.temp_file \in DOMAIN disk
    /\ disk[save.temp_file] = save.new_content
    /\ save.new_content # save.before
    /\ disk[save.file] = save.before

(***************************************************************************)
(* Further claims about the pair list.                                      *)
(***************************************************************************)

\* C11: no pair has a document of an english folder (a path with /english/
\* or /en/) as its primary.
C11_SecondaryDirNeverPrimary ==
    \A i \in 1..Len(pairs) : pairs[i].ko_file \notin EnglishFolderPaths

\* C11 witness: the pair list is complete; one document of an english folder
\* is a secondary, another one is eligible and in no pair.
C11_Witness ==
    /\ pc = "paired"
    /\ \E i \in 1..Len(pairs) : pairs[i].en_file \in EnglishFolderPaths
    /\ \E p \in Eligible \cap EnglishFolderPaths :
          p \notin ConsumedBefore(Len(pairs) + 1)

\* C12: a call of collect_language_pairs on a folder it was called on before,
\* with the same files, returns the list the earlier call returned, in the
\* same order, however the file system lists the files.
C12_ResolveDeterministic ==
    (run > 1 /\ pc = "paired") => pairs = trace

\* C12 witness: the second call has returned a list of two pairs, one of them
\* with a secondary.
C12_Witness ==
    /\ run = 2
    /\ pc = "paired"
    /\ Len(pairs) = 2
    /\ \E i \in 1..2 : pairs[i].en_file # NoFile

\* The documents without a true publish flag.
Ineligible == { p \in DOMAIN disk : disk[p].wellformed /\ disk[p].publish # "true" }

\* C13: a document whose publish flag is absent or false fills no slot of the
\* pair list, no request of the history of a pair is made for it, and no call
\* of save_metadata_to_file is for it.
C13_IneligibleExcluded ==
    /\ \A i \in 1..Len(pairs) : SlotsOf(pairs[i]) \cap Ineligible = {}
    /\ \A k \in 1..Len(trace) : trace[k].file \notin Ineligible
    /\ save.file \notin Ineligible

\* C13 witness: the run is over; the english twin of a.md carries the group
\* id of a.md and the post id b.md stores as its mirror but has publish false,
\* and a.md and b.md were published on their own.
C13_Witness ==
    /\ pc = "done"
    /\ FileEnglishA \in Ineligible
    /\ disk[FileEnglishA].group_id = disk[FileA].group_id
    /\ disk[FileB].mirror_post_id = disk[FileEnglishA].wp_post_id
    /\ Len(pairs) = 2
    /\ stats.ko_created + stats.ko_updated = 2

(***************************************************************************)
(* Further claims about the reconciler.                                     *)
(***************************************************************************)

\* The id the pair list holds for the side in turn.
IdAtPairing ==
    IF side = "ko" THEN pairs[cursor].ko_existing_id ELSE pairs[cursor].en_existing_id

\* This step is a publish request (its entry is the last of trace').
PublishStep == pc = "publish" /\ pc' \in { "language", "parse", "done" }

\* C14: a publish request is a create exactly when the pair list holds no id
\* for the side, and else an update of the post with that id (a successful
\* one returns that id); the write that follows a successful update leaves
\* the wp-post-id of the file what it was, namely that id.
C14_CreateIffNoId ==
    [][ /\ PublishStep =>
              LET e == trace'[Len(trace')]
              IN /\ e.op \in { "create", "update" }
                 /\ e.op = "create" <=> IdAtPairing = NoId
                 /\ (e.op = "update" /\ e.ok) => e.id = IdAtPairing
        /\ (pc = "save" /\ save.at = "move" /\ save'.at = "returned" /\ save'.ok
              /\ IdAtPairing # NoId) =>
              /\ disk'[save.file].wp_post_id = IdAtPairing
              /\ disk[save.file].wp_post_id = IdAtPairing ]_vars

\* C14 witness: in one pair the primary was created and the secondary, which
\* had an id, was updated and its id written back.
C14_Witness ==
    /\ pc = "save"
    /\ side = "en"
    /\ save.at = "returned"
    /\ save.ok
    /\ IdAtPairing # NoId
    /\ trace[1].op = "create"
    /\ trace[1].ok
    /\ \E k \in 1..Len(trace) :
          trace[k].op = "update" /\ trace[k].ok /\ trace[k].file = save.file

\* process_pairs is in its loop.
InLoop ==
    pc \in { "parse", "publish", "language", "save", "upload", "feature", "link" }

\* The last entry of the history is a publish or link request that failed.
LastFailedRequest ==
    /\ trace # << >>
    /\ trace[Len(trace)].op \in { "create", "update", "link" }
    /\ ~trace[Len(trace)].ok

\* C15: the step in which a publish or link request fails leads to the next
\* pair of the list or, after the last pair, to the summary; the loop takes
\* the pairs one by one in the order of the list and reaches the summary only
\* after the last one; and a run that is not killed ends, with the summary
\* unless reading a file of the list fails.
C15_FailureDoesNotStopRun ==
    /\ [][ /\ (InLoop /\ LastFailedRequest' /\ trace' # trace) =>
                 \/ pc' = "parse" /\ side' = "ko" /\ cursor' = cursor + 1
                 \/ pc' = "done" /\ cursor = Len(pairs)
           /\ InLoop =>
                 /\ cursor' \in { cursor, cursor + 1 }
                 /\ pairs' = pairs
                 /\ pc' = "crashed" => pc = "parse"
                 /\ pc' = "done" => cursor = Len(pairs) ]_vars
    /\ <>(pc \in { "done", "crashed" })

\* C15 witness: the summary of a run over two pairs in which a request of the
\* first pair failed and the primary of the second pair was published.
C15_Witness ==
    /\ pc = "done"
    /\ Len(pairs) = 2
    /\ cursor = 2
    /\ stats.failed >= 1
    /\ trace # << >>
    /\ trace[Len(trace)].file = pairs[2].ko_file
    /\ trace[Len(trace)].ok

\* C16: the step in which the publish of the primary fails adds one to the
\* failed counter and nothing to the other counters, writes no file, starts no
\* metadata write, and is the only entry of the history of its pair: the next
\* step belongs to the next pair or is the summary.
C16_PrimaryFailureEndsPair ==
    [][ (pc = "publish" /\ side = "ko" /\ LastFailedPublish') =>
           /\ stats' = [ stats EXCEPT !.failed = @ + 1 ]
           /\ disk' = disk
           /\ save' = IdleSave
           /\ posts' = posts
           /\ translations' = translations
           /\ Len(trace') = 1
           /\ \/ pc' = "parse" /\ side' = "ko" /\ cursor' = cursor + 1
              \/ pc' = "done" /\ cursor = Len(pairs) ]_vars

\* C16 witness: the publish of the primary of the first pair, which has a
\* secondary, failed, and the loop is at the second pair.
C16_Witness ==
    /\ pc = "parse"
    /\ side = "ko"
    /\ cursor = 2
    /\ LastFailedPublish
    /\ trace[1].file = pairs[1].ko_file
    /\ pairs[1].en_file # NoFile
    /\ stats = [ ZeroStats EXCEPT !.failed = 1 ]

\* The history holds a successful publish of a file that returned an id.
Published(events, file, id) ==
    \E k \in 1..Len(events) :
        /\ events[k].op \in { "create", "update" }
        /\ events[k].ok
        /\ events[k].file = file
        /\ events[k].id = id

\* C17: a link request is made only by a pair with a secondary, after a
\* successful publish of its primary and of its secondary, and with the two
\* ids these returned, both of them posts of the gateway.
C17_LinkOnlyWithBothIds ==
    [][ (trace' # trace /\ trace' # << >> /\ trace'[Len(trace')].op = "link") =>
           /\ pc = "link"
           /\ pairs[cursor].en_file # NoFile
           /\ post_ids.ko # NoId
           /\ post_ids.en # NoId
           /\ { post_ids.ko, post_ids.en } \subseteq posts
           /\ Published(trace, pairs[cursor].ko_file, post_ids.ko)
           /\ Published(trace, pairs[cursor].en_file, post_ids.en) ]_vars

\* C17 witness: a link request was made and succeeded.
C17_Witness ==
    /\ trace # << >>
    /\ trace[1].op = "link"
    /\ trace[1].ok
    /\ stats.linked = 1
    /\ translations # {}

\* C18: no step removes a post from the gateway, and no step removes or
\* changes a wp-post-id that a document holds: what earlier steps completed
\* stays, whatever fails later.
C18_NoRollback ==
    [][ /\ posts \subseteq posts'
        /\ \A p \in Documents \cap DOMAIN disk :
              disk[p].wp_post_id # NoId =>
                 /\ p \in DOMAIN disk'
                 /\ disk'[p].wp_post_id = disk[p].wp_post_id ]_vars

\* C18 witness: the link request of a pair failed after both of its documents
\* were created and got their ids written; posts and ids are still there.
C18_Witness ==
    /\ trace # << >>
    /\ trace[1].op = "link"
    /\ ~trace[1].ok
    /\ \E i \in 1..Len(pairs) :
          /\ pairs[i].en_file # NoFile
          /\ pairs[i].ko_existing_id = NoId
          /\ pairs[i].en_existing_id = NoId
          /\ disk[pairs[i].ko_file].wp_post_id \in posts
          /\ disk[pairs[i].en_file].wp_post_id \in posts

\* The last entry of the history is a cover request that failed.
LastFailedCover ==
    /\ trace # << >>
    /\ trace[Len(trace)].op \in { "upload", "feature" }
    /\ ~trace[Len(trace)].ok

\* C19: the step in which the upload or the featured-image request of a side
\* fails changes no counter; after the primary's it is the turn of the
\* secondary of the same pair if there is one, after the secondary's the link
\* request of the same pair.
C19_CoverFailureNotFatal ==
    [][ (pc \in { "upload", "feature" } /\ LastFailedCover') =>
           /\ stats' = stats
           /\ (side = "ko" /\ pairs[cursor].en_file # NoFile) =>
                 (pc' = "parse" /\ side' = "en" /\ cursor' = cursor
                    /\ post_ids' = post_ids)
           /\ side = "en" =>
                 (pc' = "link" /\ cursor' = cursor /\ post_ids' = post_ids) ]_vars

\* C19 witness: the cover of the primary and the cover of the secondary both
\* failed, and the link of the pair succeeded with no failure counted.
C19_Witness ==
    /\ trace # << >>
    /\ trace[1].op = "link"
    /\ trace[1].ok
    /\ stats.thumbnail_set = 0
    /\ stats.failed = 0
    /\ stats.linked = 1
    /\ covers # {}

\* A pair of two documents that had no id when the list was made.
BothNew(i) ==
    /\ pairs[i].en_file # NoFile
    /\ pairs[i].ko_existing_id = NoId
    /\ pairs[i].en_existing_id = NoId

\* The publish requests and id writes of a history, without its language and
\* cover requests.
IsMainStep(e) == e.op \in { "create", "update", "save" }

MainSteps(events) ==
    LET main == SelectSeq(events, IsMainStep)
    IN [ k \in 1..Len(main) |-> << main[k].op, main[k].file, main[k].id >> ]

AllOk(events) == \A k \in 1..Len(events) : events[k].ok

\* C20: when the link request of a pair of two new documents is due and
\* nothing before it failed, the history of the pair is: create the primary,
\* write its id, create the secondary, write its id, each write with the id
\* the create returned; and the summary of a run over this one pair in which
\* the link succeeded too counts one created post per language, one link, no
\* update and no failure.
C20_NewPairHappyPath ==
    /\ (pc = "link" /\ BothNew(cursor) /\ AllOk(trace)) =>
          MainSteps(trace) =
             << << "create", pairs[cursor].ko_file, post_ids.ko >>,
                << "save", pairs[cursor].ko_file, post_ids.ko >>,
                << "create", pairs[cursor].en_file, post_ids.en >>,
                << "save", pairs[cursor].en_file, post_ids.en >> >>
    /\ (pc = "done" /\ Len(pairs) = 1 /\ BothNew(1) /\ history.clean
          /\ trace # << >> /\ trace[1].op = "link" /\ trace[1].ok) =>
          /\ stats.ko_created = 1
          /\ stats.en_created = 1
          /\ stats.ko_updated = 0
          /\ stats.en_updated = 0
          /\ stats.linked = 1
          /\ stats.failed = 0

\* C20 witness: the summary of such a run.
C20_Witness ==
    /\ pc = "done"
    /\ Len(pairs) = 1
    /\ BothNew(1)
    /\ history.clean
    /\ trace # << >>
    /\ trace[1].op = "link"
    /\ trace[1].ok
    /\ disk[pairs[1].ko_file].wp_post_id \in posts
    /\ disk[pairs[1].en_file].wp_post_id \in posts
    /\ << disk[pairs[1].ko_file].wp_post_id, disk[pairs[1].en_file].wp_post_id >>
          \in translations

(***************************************************************************)
(* Claims about the outcome of a pair, the metadata write and discovery.    *)
(***************************************************************************)

\* This step is the last one of the pair in turn: the loop goes to the next
\* pair or leaves for the summary.
PairEnds ==
    /\ InLoop
    /\ \/ pc' = "parse" /\ cursor' = cursor + 1
       \/ pc' = "done"

\* C21 as stated: the step that ends a pair counts a link or counts a failure.
C21_EndsLinkedOrFailed ==
    [][ PairEnds =>
           \/ stats'.linked = stats.linked + 1 /\ stats'.failed = stats.failed
           \/ stats'.failed = stats.failed + 1 /\ stats'.linked = stats.linked ]_vars

\* C21: the step that ends a pair with a secondary counts a link or counts a
\* failure; the step that ends a pair without one counts a failure (its
\* publish failed) or leaves both counters alone, and then the primary is
\* published.
C21_EndsLinkedFailedOrPublished ==
    [][ PairEnds =>
           \/ /\ stats'.linked = stats.linked + 1
              /\ stats'.failed = stats.failed
              /\ pairs[cursor].en_file # NoFile
           \/ /\ stats'.failed = stats.failed + 1
              /\ stats'.linked = stats.linked
           \/ /\ pairs[cursor].en_file = NoFile
              /\ stats'.linked = stats.linked
              /\ stats'.failed = stats.failed
              /\ post_ids.ko \in posts ]_vars

\* C21 witness: a pair without a secondary has ended with its primary
\* published, and a pair with one has ended with a failed link.
C21_Witness ==
    /\ pc = "done"
    /\ Len(pairs) = 2
    /\ \E i \in 1..2 : pairs[i].en_file # NoFile
    /\ \E i \in 1..2 : pairs[i].en_file = NoFile
    /\ stats.ko_created + stats.ko_updated = 2
    /\ stats.en_created + stats.en_updated = 1
    /\ stats.failed = 1
    /\ stats.linked = 0

\* C22: the step after a metadata write that returned False starts no other
\* write, counts nothing, leaves the post of the side in the gateway and goes
\* to the cover step of the side if there is a cover, else to the secondary
\* of the pair after the primary and to the link after the secondary; and no
\* write of a history comes right after another write.
C22_FailedWriteNotRetried ==
    /\ [][ (pc = "save" /\ save.at = "returned" /\ ~save.ok /\ pc' # "stopped") =>
              /\ save' = IdleSave
              /\ disk' = disk
              /\ stats' = stats
              /\ posts' = posts
              /\ post_ids[side] \in posts
              /\ IF find_cover_image(PairFile(side))
                 THEN pc' = "upload" /\ side' = side /\ cursor' = cursor
                 ELSE IF side = "en"
                 THEN pc' = "link" /\ cursor' = cursor
                 ELSE pairs[cursor].en_file # NoFile =>
                         (pc' = "parse" /\ side' = "en" /\ cursor' = cursor) ]_vars
    /\ [](\A k \in 1..Len(trace) :
             (trace[k].op = "save" /\ k > 1) => trace[k - 1].op = "language")

\* C22 witness: the link of a pair is due although the id write of its
\* created primary failed: the post is there, the file holds no id.
C22_Witness ==
    /\ pc = "link"
    /\ post_ids.ko \in posts
    /\ disk[pairs[cursor].ko_file].wp_post_id = NoId
    /\ \E k \in 1..Len(trace) :
          /\ trace[k].op = "save"
          /\ ~trace[k].ok
          /\ trace[k].file = pairs[cursor].ko_file

\* C23: no failure inside one pair ends the loop over the pairs: the process
\* is never left by an exception raised while the pair at `cursor` is being
\* processed, which would leave that pair and every later one unprocessed and
\* the summary unprinted.
C23_NoFailureCrossesPair ==
    ~(pc = "crashed" /\ cursor \in 1..Len(pairs))

(***************************************************************************)
(* Further claims about save_metadata_to_file.                              *)
(***************************************************************************)

C25_NoTempAfterFalse ==
    (save.at = "returned" /\ ~save.ok) =>
        /\ save.temp_file # NoFile => save.temp_file \notin DOMAIN disk
        /\ TempIn[save.file][run] \notin DOMAIN disk

\* C25 witness: a call that had made its temporary file returned False, and
\* the file is gone.
C25_Witness ==
    /\ save.at = "returned"
    /\ ~save.ok
    /\ save.temp_file # NoFile
    /\ save.temp_file \notin DOMAIN disk
    /\ save.file \in DOMAIN disk

\* C26: a call of save_metadata_to_file that did not end in its except-branch
\* returns True exactly when the serialized new text is at least as long as
\* the original minus 100 characters; a call that returns False leaves the
\* file as it was; and the re-read temporary file goes on to the move exactly
\* when it passes the same test.
C26_AcceptsIffLongEnough ==
    /\ [](save.at = "returned" =>
            /\ ~save.raised =>
                  (save.ok <=>
                     Length(Dumps(Merge(save.before, save.key, save.value)))
                         >= Length(save.before) - SanityMargin)
            /\ save.raised => ~save.ok
            /\ ~save.ok => disk[save.file] = save.before
            /\ save.ok => Length(disk[save.file]) >= Length(save.before) - SanityMargin)
    /\ [][ (save.at = "verify" /\ save'.at \in { "move", "returned" } /\ ~save'.raised) =>
              (save'.at = "move" <=>
                 Length(disk[save.temp_file])
                     >= Length(save.original_content) - SanityMargin) ]_vars

\* C26 witness: a write whose text is exactly 100 characters shorter than the
\* original was accepted.
C26_Witness ==
    /\ save.at = "returned"
    /\ save.ok
    /\ Length(disk[save.file]) = Length(save.before) - SanityMargin

\* C26 witness of the other side: a write 101 characters shorter was rejected
\* by the check, not by an exception.
C26_WitnessRejected ==
    /\ save.at = "returned"
    /\ ~save.ok
    /\ ~save.raised
    /\ Length(Dumps(Merge(save.before, save.key, save.value)))
          = Length(save.before) - SanityMargin - 1

(***************************************************************************)
(* get_markdown_files on its own: every subset of a folder with files of     *)
(* every kind; the returned list is kept in file_order.                      *)
(***************************************************************************)

WalkFiles == { FileA, FileEnglishA, Join(Root, TempName(1)) } \cup OtherFiles

InitWalk ==
    /\ \E present \in SUBSET WalkFiles :
          disk = [ p \in present |-> Doc("true", NoId, NoId, NoGroup, 0) ]
    /\ covers = {}
    /\ pc = "walk"
    /\ save = IdleSave
    /\ InitLocals
    /\ InitGateway

\* markdown_files = get_markdown_files(publish_folder)
WalkCall ==
    /\ pc = "walk"
    /\ \E listing \in Listings : file_order' = get_markdown_files(listing)
    /\ pc' = "walked"
    /\ UNCHANGED << disk, covers, gatewayVars, run, side, all_files,
                    post_id_to_file, group_id_to_files, processed_files, pairs,
                    cursor, stats, post_ids, save, trace, history >>

NextWalk == WalkCall

SpecWalk == InitWalk /\ [][NextWalk]_vars

\* The directory names on the way from the root to a file.
FoldersBelowRoot(p) ==
    { Basename(d) : d \in { a \in Ancestors(p) : Len(a) > Len(Root) } }

\* C27: the list get_markdown_files returns is in ascending order of str
\* comparison without repetition, and its elements are exactly the files
\* present below the root whose name ends in .md and does not begin with a
\* dot and that have no folder named in the exclusion list on the way from
\* the root.
C27_WalkListsExactlyDocuments ==
    pc = "walked" =>
        /\ \A i \in 1..(Len(file_order) - 1) : StrLess(file_order[i], file_order[i + 1])
        /\ { file_order[i] : i \in 1..Len(file_order) } =
              { p \in DOMAIN disk :
                   /\ StartsWith(p, Root \o <<"/">>)
                   /\ EndsWith(Basename(p), MdSuffix)
                   /\ Head(Basename(p)) # "."
                   /\ FoldersBelowRoot(p) \cap ExcludeFolders = {} }

\* C27 witness: a folder with a file of every kind: three are returned (a
\* file in a hidden folder among them), the hidden file, the text file and
\* the two files below drafts are not.
C27_Witness ==
    /\ pc = "walked"
    /\ OtherFiles \subseteq DOMAIN disk
    /\ file_order = << FileInHiddenDir, FileA, FileEnglishA >>

\* The pair in work has no secondary.
Monolingual == InLoop /\ pairs[cursor].en_file = NoFile

\* The id write of the side in work has returned True.
SavedOk ==
    \/ pc = "save" /\ save.at = "returned" /\ save.ok
    \/ \E k \in 1..Len(trace) : trace[k].op = "save" /\ trace[k].ok

\* C30: a primary for which the three strategies find nothing gets a pair
\* with en_file none; while that pair is in work no link is requested, the
\* secondary side is never entered and, unless the process is killed, linked
\* is not touched; failed moves only by a failed publish of the primary;
\* after a successful publish the id is handed to save_metadata_to_file; and
\* when the pair ends without a failure counted the post of the primary
\* exists and, if the write returned True, the file holds its id.
C30_MonolingualPair ==
    /\ [][ (pc = "pairing" /\ Len(pairs') = Len(pairs) + 1
              /\ GroupMatch(file_order[cursor]) = NoFile
              /\ MirrorMatch(file_order[cursor]) = NoFile
              /\ FolderMatch(file_order[cursor]) = NoFile) =>
                 /\ pairs'[Len(pairs')].ko_file = file_order[cursor]
                 /\ pairs'[Len(pairs')].en_file = NoFile ]_vars
    /\ [](Monolingual =>
             /\ pc # "link"
             /\ side = "ko"
             /\ pc # "parse" => \A k \in 1..Len(trace) : trace[k].op # "link")
    /\ [][ (Monolingual /\ pc' # "stopped") =>
             /\ stats'.linked = stats.linked
             /\ translations' = translations
             /\ stats'.failed # stats.failed => (pc = "publish" /\ post_ids'.ko = NoId)
             /\ (pc = "language" /\ pc' = "save") =>
                   /\ post_ids.ko \in posts
                   /\ save' = CallSave(pairs[cursor].ko_file, "wp-post-id", post_ids.ko)
             /\ (PairEnds /\ stats'.failed = stats.failed) =>
                   /\ post_ids.ko \in posts
                   /\ pc = "save" \/ \E k \in 1..Len(trace) : trace[k].op = "save"
                   /\ SavedOk => disk[pairs[cursor].ko_file].wp_post_id = post_ids.ko ]_vars

\* C30 witness: a run has ended in which both primaries had no secondary:
\* both were published and hold their ids, nothing is linked, nothing failed.
C30_Witness ==
    /\ pc = "done"
    /\ Len(pairs) = 2
    /\ \A i \in 1..2 :
          /\ pairs[i].en_file = NoFile
          /\ disk[pairs[i].ko_file].wp_post_id \in posts
    /\ stats.ko_created = 2
    /\ stats.failed = 0
    /\ stats.linked = 0
    /\ translations = {}

(***************************************************************************)
(* One request on its own: every kind of request with every response.       *)
(***************************************************************************)

InitRequest ==
    /\ disk = << >>
    /\ covers = {}
    /\ pc = "request"
    /\ save = IdleSave
    /\ InitLocals
    /\ InitGateway

\* One request of publish_post, set_featured_image or link_translations and
\* the result dict built from its response.
Request ==
    /\ pc = "request"
    /\ \E op \in RemoteOps, r \in Responses :
          /\ response' = r
          /\ trace' = << Event(op, NoFile, Succeeded(op, r), NoId) >>
    /\ pc' = "classified"
    /\ UNCHANGED << disk, covers, posts, next_id, translations, run, side,
                    collectVars, pairs, cursor, stats, post_ids, save, history >>

NextRequest == Request

SpecRequest == InitRequest /\ [][NextRequest]_vars

\* C28: a request is marked failed exactly when the transport raised or the
\* status of the response is neither 2xx nor 3xx; every response with a 2xx
\* or 3xx status makes it a success.
C28_FailedIffNot2xx3xx ==
    pc = "classified" =>
        (trace[1].ok <=> (~response.raised /\ response.status \in 200..399))

(***************************************************************************)
(* The first publisher (obsidian_to_wp.py with LanguageManager): after its  *)
(* loop has published the files one by one, _link_mirror_posts writes the   *)
(* mirror ids.  post_ids holds language_posts of the two files: the ids     *)
(* register_post was given, NoId for a file that was not registered.        *)
(***************************************************************************)

\* The registered english file, if there is a file in the english folder.
MirrorEnFile ==
    IF FileEnglishA \in DOMAIN disk THEN FileEnglishA
    ELSE IF FileEnglishB \in DOMAIN disk THEN FileEnglishB
    ELSE NoFile

\* The state after the publishing loop: a file is registered only after its
\* post was published and its wp-post-id saved.
InitMirror ==
    /\ \E ko \in { NoId, 1 }, en \in { NoId, 2 },
          en_file \in { NoFile, FileEnglishA, FileEnglishB }, la, le \in LostValues :
          /\ post_ids = [ ko |-> ko, en |-> IF en_file = NoFile THEN NoId ELSE en ]
          /\ disk = [ p \in {FileA} \cup ({en_file} \ {NoFile}) |->
                        IF p = FileA THEN Doc("true", ko, NoId, NoGroup, la)
                        ELSE Doc("true", en, NoId, NoGroup, le) ]
    /\ covers = {}
    /\ pc = "mirror"
    /\ save = IdleSave
    /\ run = 1
    /\ side = "ko"
    /\ all_files = << >>
    /\ file_order = << >>
    /\ post_id_to_file = << >>
    /\ group_id_to_files = << >>
    /\ processed_files = {}
    /\ pairs = << >>
    /\ cursor = 1
    /\ stats = ZeroStats
    /\ trace = << >>
    /\ history = NoHistory
    /\ translations = {}
    /\ InitGateway

mirrorFrame == << covers, gatewayVars, run, collectVars, pairs, cursor, stats,
                 post_ids, history >>

\* _link_mirror_posts: for a registered english file with a registered
\* korean file of the same name, link_mirror_posts up to its first
\* save_metadata_to_file(ko_file_path, 'mirror_post_id', en_post_id).
MirrorStart ==
    /\ pc = "mirror"
    /\ IF /\ MirrorEnFile # NoFile
          /\ post_ids.en # NoId
          /\ post_ids.ko # NoId
          /\ Basename(MirrorEnFile) = Basename(FileA)
       THEN /\ save' = CallSave(FileA, "mirror_post_id", post_ids.en)
            /\ pc' = "unit"
       ELSE /\ save' = save
            /\ pc' = "mirrored"
    /\ UNCHANGED << disk, side, trace, mirrorFrame >>

\* save_metadata_to_file(en_file_path, 'mirror_post_id', ko_post_id), whatever
\* the first save returned.
MirrorSecond ==
    /\ pc = "unit"
    /\ side = "ko"
    /\ save.at = "returned"
    /\ trace' = Append(trace, Event("save", save.file, save.ok, save.value))
    /\ save' = CallSave(MirrorEnFile, "mirror_post_id", post_ids.ko)
    /\ side' = "en"
    /\ UNCHANGED << disk, pc, mirrorFrame >>

\* The result of link_mirror_posts is printed.
MirrorReturn ==
    /\ pc = "unit"
    /\ side = "en"
    /\ save.at = "returned"
    /\ trace' = Append(trace, Event("save", save.file, save.ok, save.value))
    /\ save' = IdleSave
    /\ pc' = "mirrored"
    /\ UNCHANGED << disk, side, mirrorFrame >>

NextMirror ==
    \/ MirrorStart
    \/ MirrorSecond
    \/ MirrorReturn
    \/ SavePrepare
    \/ SaveCreateTemp
    \/ SaveWriteTemp
    \/ SaveVerify
    \/ SaveMove

SpecMirror == InitMirror /\ [][NextMirror]_vars

\* C29: a document has a mirror_post_id only when the gateway holds the
\* translation link between its post and the post of that id.
C29_MirrorIdOnlyAfterLink ==
    \A p \in (DOMAIN disk) \cap Documents :
        disk[p].mirror_post_id # NoId =>
            \/ << disk[p].wp_post_id, disk[p].mirror_post_id >> \in translations
            \/ << disk[p].mirror_post_id, disk[p].wp_post_id >> \in translations

(***************************************************************************)
(* Further claims about pairing and about the run as a whole.               *)
(***************************************************************************)

\* The files of the same name in the subfolders next to a primary that the
\* skip test of the pairing loop takes for english folders (english, en).
SecondaryTwinsOf ==
    [ p \in KnownPaths |->
        { EnglishTwinOf[p], Join(Join(Dirname(p), <<"e", "n">>), Basename(p)) } ]

\* C31: when the pairing loop builds the pair of a primary that has no
\* group match and no mirror match, and an english or en subfolder next to
\* it holds an eligible file of the same name that is in no earlier pair,
\* such a file is the secondary of the pair.
C31_FolderTwinChosen ==
    [][ (/\ pc = "pairing"
         /\ Len(pairs') = Len(pairs) + 1
         /\ GroupMatch(file_order[cursor]) = NoFile
         /\ MirrorMatch(file_order[cursor]) = NoFile
         /\ \E c \in SecondaryTwinsOf[file_order[cursor]] :
               c \in DOMAIN all_files /\ c \notin processed_files) =>
            /\ pairs'[Len(pairs')].en_file \in SecondaryTwinsOf[file_order[cursor]]
            /\ pairs'[Len(pairs')].en_file \in DOMAIN all_files
            /\ pairs'[Len(pairs')].en_file \notin processed_files ]_vars

\* The eligible documents of the english folders that no pair has as its
\* secondary.
Unselected ==
    { p \in (DOMAIN disk) \cap Documents \cap EnglishFolderPaths :
        /\ disk[p].wellformed
        /\ disk[p].publish = "true"
        /\ \A i \in 1..Len(pairs) : pairs[i].en_file # p }

\* C32: while process_pairs works through the pair list and when it is done,
\* an eligible document of an english folder that is the secondary of no pair
\* is the file of no request and of no write of the history, is not the file
\* in work, and no step changes it on disk; and a step that adds to failed
\* has logged a failed request of the pair in work.
C32_UnselectedSecondaryUntouched ==
    /\ []((InLoop \/ pc = "done") =>
            \A p \in Unselected :
               /\ \A k \in 1..Len(trace) : trace[k].file # p
               /\ save.file # p
               /\ InLoop => PairFile(side) # p)
    /\ [][ (InLoop /\ pc' # "stopped") =>
             /\ \A p \in Unselected : p \in DOMAIN disk' /\ disk'[p] = disk[p]
             /\ stats'.failed # stats.failed =>
                   /\ stats'.failed = stats.failed + 1
                   /\ ~trace'[Len(trace')].ok
                   /\ trace'[Len(trace')].file \in
                         { pairs[cursor].ko_file, pairs[cursor].en_file, NoFile } ]_vars

\* C32 witness: a run is done with nothing failed while en/a.md, eligible and
\* in no pair, is as it was: without a post id.
C32_Witness ==
    /\ pc = "done"
    /\ Len(pairs) >= 1
    /\ FileEnA \in Unselected
    /\ disk[FileEnA].wp_post_id = NoId
    /\ stats.failed = 0
    /\ stats.ko_created + stats.ko_updated = Len(pairs)

\* C33: no step of a run adds or removes a document, and a step that
\* changes a document is the move of a save_metadata_to_file call of
\* process_pairs for the key wp-post-id on the file of the pair and side in
\* work: the document gets the id of the post of that side, and its other
\* keys and its body are as before.
C33_OnlyIdWritesToPairDocuments ==
    [][ /\ (DOMAIN disk') \cap Documents = (DOMAIN disk) \cap Documents
        /\ \A p \in (DOMAIN disk) \cap Documents :
              disk'[p] # disk[p] =>
                 /\ pc = "save"
                 /\ save.at = "move"
                 /\ save.file = p
                 /\ save.key = "wp-post-id"
                 /\ save.value = post_ids[side]
                 /\ p = PairFile(side)
                 /\ p \in SlotsOf(pairs[cursor])
                 /\ disk'[p].wp_post_id = save.value
                 /\ disk'[p].publish = disk[p].publish
                 /\ disk'[p].mirror_post_id = disk[p].mirror_post_id
                 /\ disk'[p].group_id = disk[p].group_id
                 /\ disk'[p].body = disk[p].body
                 /\ disk'[p].wellformed ]_vars

\* C33 witness: the id write of a new primary with a group key has returned
\* True: the file holds the id and its group key, the other documents are on
\* disk next to it.
C33_Witness ==
    /\ pc = "save"
    /\ side = "ko"
    /\ save.at = "returned"
    /\ save.ok
    /\ save.before.wp_post_id = NoId
    /\ disk[save.file].wp_post_id = post_ids.ko
    /\ disk[save.file].group_id = "g"
    /\ FileB \in DOMAIN disk
    /\ Cardinality((DOMAIN disk) \cap Documents) = 3

\* C34 as stated: when the link is requested, the two documents of the pair
\* hold the ids of the two posts.
C34_IdsPersistedAtLink ==
    pc = "link" =>
        /\ disk[pairs[cursor].ko_file].wp_post_id = post_ids.ko
        /\ disk[pairs[cursor].en_file].wp_post_id = post_ids.en

\* The write of the id of a side of the pair in work has returned with `ok`.
IdWriteReturned(s, ok) ==
    \E k \in 1..Len(trace) :
        /\ trace[k].op = "save"
        /\ trace[k].file = PairFile(s)
        /\ trace[k].id = post_ids[s]
        /\ trace[k].ok = ok

\* C34: when the link is requested, the id write of each side has been
\* called with the id of the post of that side and has returned; a side whose
\* write returned True holds that id in its document.
C34_IdWritesBeforeLink ==
    pc = "link" =>
        \A s \in { "ko", "en" } :
            /\ post_ids[s] \in posts
            /\ IdWriteReturned(s, TRUE) \/ IdWriteReturned(s, FALSE)
            /\ IdWriteReturned(s, TRUE) => disk[PairFile(s)].wp_post_id = post_ids[s]

\* C34 witness: the link of a pair of two new documents is due and both
\* documents hold their ids.
C34_Witness ==
    /\ pc = "link"
    /\ pairs[cursor].ko_existing_id = NoId
    /\ pairs[cursor].en_existing_id = NoId
    /\ IdWriteReturned("ko", TRUE)
    /\ IdWriteReturned("en", TRUE)
    /\ disk[pairs[cursor].ko_file].wp_post_id = post_ids.ko
    /\ disk[pairs[cursor].en_file].wp_post_id = post_ids.en
    /\ post_ids.ko # post_ids.en

\* The slots of the pair list, as << index, side >>, that hold a document, and
\* those among them for which the pair list holds no post id.
Slots ==
    { << i, "ko" >> : i \in 1..Len(pairs) } \cup
    { << i, "en" >> : i \in { j \in 1..Len(pairs) : pairs[j].en_file # NoFile } }

SlotFile(sl) == IF sl[2] = "ko" THEN pairs[sl[1]].ko_file ELSE pairs[sl[1]].en_file

NewSlots ==
    { sl \in Slots :
        (IF sl[2] = "ko" THEN pairs[sl[1]].ko_existing_id
         ELSE pairs[sl[1]].en_existing_id) = NoId }

\* The slots process_pairs has reached so far.
ReachedSlots ==
    { sl \in Slots :
        \/ pc = "done"
        \/ sl[1] < cursor
        \/ sl[1] = cursor /\ (sl[2] = "ko" \/ side = "en") }

\* C35: in a run, no document is in two slots of the pair list that call for
\* a create, and the create requests issued so far are at most one for each
\* such slot reached.
C35_OneCreatePerDocument ==
    (InLoop \/ pc = "done") =>
        /\ \A sl, tl \in NewSlots : SlotFile(sl) = SlotFile(tl) => sl = tl
        /\ history.creates <= Cardinality(NewSlots \cap ReachedSlots)

\* C35 witness: a run is done in which one document was the secondary of two
\* pairs, once through the mirror id; it was updated twice, and the one
\* create was that of a primary.
C35_Witness ==
    /\ pc = "done"
    /\ \E i, j \in 1..Len(pairs) :
          /\ i # j
          /\ pairs[i].en_file = pairs[j].en_file
          /\ pairs[i].en_file # NoFile
          /\ pairs[j].via = "mirror"
    /\ stats.en_updated = 2
    /\ stats.ko_created = 1
    /\ history.creates = 1

\* C36: a temporary file of save_metadata_to_file is never in the list
\* get_markdown_files returned and kept by the index pass, never in a slot
\* of the pair list, and never the file of a request.
C36_TempNeverDocument ==
    \A p \in TempPaths :
        /\ \A k \in 1..Len(file_order) : file_order[k] # p
        /\ p \notin DOMAIN all_files
        /\ \A i \in 1..Len(pairs) : pairs[i].ko_file # p /\ pairs[i].en_file # p
        /\ \A k \in 1..Len(trace) : trace[k].file # p

\* The pairs process_pairs has begun, and those it is through with.
PairsBegun == IF pc = "done" THEN Len(pairs) ELSE cursor

PairsEnded == IF pc = "done" THEN Len(pairs) ELSE cursor - 1

\* The primary of the pair in work has been counted or has failed.
PrimarySettled ==
    /\ InLoop
    /\ \/ side = "en"
       \/ pc \in { "save", "upload", "feature" }

\* C37: in process_pairs, linked <= en_created + en_updated <= ko_created +
\* ko_updated <= the pairs begun; failed is at most the pairs begun, a step
\* adds at most 1 to it and that step ends the pair; and ko_created +
\* ko_updated plus the failed publishes of primaries is the number of pairs
\* ended, plus one while a pair is in work whose primary has been counted.
C37_CounterRelations ==
    /\ []((InLoop \/ pc = "done") =>
            /\ stats.linked <= stats.en_created + stats.en_updated
            /\ stats.en_created + stats.en_updated <= stats.ko_created + stats.ko_updated
            /\ stats.ko_created + stats.ko_updated <= PairsBegun
            /\ stats.failed <= PairsBegun
            /\ history.ko_failed <= stats.failed
            /\ stats.ko_created + stats.ko_updated + history.ko_failed
                  = PairsEnded + (IF PrimarySettled THEN 1 ELSE 0))
    /\ [][ (InLoop /\ pc' # "stopped" /\ stats'.failed # stats.failed) =>
              /\ stats'.failed = stats.failed + 1
              /\ PairEnds ]_vars

\* C37 witness: a run of two pairs is done: the publish of one primary
\* failed, the other pair was published on both sides and its link failed.
C37_Witness ==
    /\ pc = "done"
    /\ Len(pairs) = 2
    /\ history.ko_failed = 1
    /\ stats.failed = 2
    /\ stats.ko_created + stats.ko_updated = 1
    /\ stats.en_created + stats.en_updated = 1
    /\ stats.linked = 0

\* C38: in every pair collect_language_pairs has built, the secondary
\* document, when there is one, is another document than the primary and
\* lies in an english folder.
C38_SecondaryDistinctAndEnglish ==
    \A i \in 1..Len(pairs) :
        pairs[i].en_file # NoFile =>
            /\ pairs[i].en_file # pairs[i].ko_file
            /\ pairs[i].en_file \in EnglishFolderPaths

\* C39: a failed update request for a document with a stored id changes no
\* file and ends the pair, so that no further request follows for the
\* document in the pair; for the rest of the run, and in the next run up to
\* the new request for the document, its file keeps that id and no create
\* request is issued for it; the request of the next run for the document is
\* an update of the post with the same id.
C39_FailedUpdateKeepsId ==
    /\ []( \A r \in history.upd_failed \cup history.upd_failed_prev :
              /\ r[2] # NoId
              /\ r[1] \in DOMAIN disk
              /\ disk[r[1]].wp_post_id = r[2] )
    /\ [][ PublishStep =>
              LET e == trace'[Len(trace')]
              IN /\ (e.op = "update" /\ ~e.ok) =>
                       /\ disk' = disk
                       /\ posts' = posts
                       /\ PairEnds
                       /\ << e.file, IdAtPairing >> \in history'.upd_failed
                 /\ \A r \in history.upd_failed \cup history.upd_failed_prev :
                       r[1] = e.file =>
                          /\ e.op = "update"
                          /\ IdAtPairing = r[2] ]_vars

\* C39 witness: the update of a document failed in the first run, and the
\* second run has updated the post with the same id.
C39_Witness ==
    /\ run = 2
    /\ pc = "language"
    /\ \E r \in history.upd_failed_prev :
          /\ trace[Len(trace)].op = "update"
          /\ trace[Len(trace)].ok
          /\ trace[Len(trace)].file = r[1]
          /\ trace[Len(trace)].id = r[2]

====
